---- MODULE Spec2Model ----
(***************************************************************************)
(* Department classification of a scanned filesystem tree                  *)
(* (classify_and_report.py, class DepartmentClassifier).                   *)
(*                                                                         *)
(* Texts, names and paths are sequences of one-character strings, so that  *)
(* lower-casing, the separator substitution, the word regex, the           *)
(* character-level substring test `keyword in tokens_str` and the string   *)
(* prefix test `startswith` are modelled by what they do.                  *)
(*                                                                         *)
(* Paths are Windows paths ("C:\dir\name"): the program counts '\' for the *)
(* depth and hands the paths to pathlib, whose Windows flavour splits on   *)
(* '\' and '/', drops empty components and compares case-insensitively.    *)
(*                                                                         *)
(* Scores are kept in tenths (fixed point) because classify_item weighs    *)
(* the parent path by 0.3: the float 6.0 is the integer 60.                *)
(***************************************************************************)
EXTENDS Integers, Sequences, FiniteSets, TLC

(***************************************************************************)
(* Characters and strings                                                  *)
(***************************************************************************)
UpperChars ==
    <<"A","B","C","D","E","F","G","H","I","J","K","L","M",
      "N","O","P","Q","R","S","T","U","V","W","X","Y","Z">>

LowerChars ==
    <<"a","b","c","d","e","f","g","h","i","j","k","l","m",
      "n","o","p","q","r","s","t","u","v","w","x","y","z">>

Digits ==
    {"0","1","2","3","4","5","6","7","8","9"}

Range(s) ==
    {s[i] : i \in DOMAIN s}

\* a Python list with the items of the function f, every item computed
as_list(f) ==
    f @@ <<>>

\* str.lower() on one character
lower_char(c) ==
    IF \E i \in DOMAIN UpperChars : UpperChars[i] = c
    THEN LowerChars[CHOOSE i \in DOMAIN UpperChars : UpperChars[i] = c]
    ELSE c

\* str.lower()
lower(text) ==
    as_list([i \in DOMAIN text |-> lower_char(text[i])])

\* the character class [_\-\.\\/] of the substitution in tokenize
IsSeparatorChar(c) ==
    c \in {"_", "-", ".", "\\", "/"}

\* the regex class \w (an underscore never survives the substitution)
IsWordChar(c) ==
    c \in Range(LowerChars) \cup Range(UpperChars) \cup Digits \cup {"_"}

\* the k-th smallest element of a set of positions
nth(positions, k) ==
    CHOOSE i \in positions : Cardinality({j \in positions : j <= i}) = k

\* the maximal runs of consecutive positions of text among the given
\* positions, in order, as substrings of text
runs(text, positions) ==
    LET starts == {i \in positions : (i - 1) \notin positions}
        end(i) == CHOOSE j \in i..Len(text) :
                      /\ \A k \in i..j : k \in positions
                      /\ (j + 1) \notin positions
    IN  as_list([k \in 1..Cardinality(starts) |->
                    SubSeq(text, nth(starts, k), end(nth(starts, k)))])

\* re.sub(r'[_\-\.\\/]+', ' ', text): every run of separators becomes one space
sub_separators(text) ==
    LET kept == {i \in DOMAIN text :
                    IsSeparatorChar(text[i]) =>
                        (i = 1 \/ ~IsSeparatorChar(text[i - 1]))}
    IN  as_list([k \in 1..Cardinality(kept) |->
                    IF IsSeparatorChar(text[nth(kept, k)]) THEN " "
                    ELSE text[nth(kept, k)]])

\* re.findall(r'\b\w+\b', text): the maximal runs of word characters
findall_words(text) ==
    runs(text, {i \in DOMAIN text : IsWordChar(text[i])})

\* DepartmentClassifier.tokenize
tokenize(text) ==
    IF text = <<>> THEN <<>>
    ELSE findall_words(sub_separators(lower(text)))

\* sep.join(parts)
RECURSIVE join(_, _)
join(sep, parts) ==
    IF parts = <<>> THEN <<>>
    ELSE IF Len(parts) = 1 THEN parts[1]
         ELSE parts[1] \o sep \o join(sep, Tail(parts))

\* the Python test `sub in text` on strings
IsSubstring(sub, text) ==
    \E i \in 0..(Len(text) - Len(sub)) :
        \A j \in 1..Len(sub) : text[i + j] = sub[j]

\* str.split(): the maximal runs of non-blank characters
split(text) ==
    runs(text, {i \in DOMAIN text : text[i] # " "})

\* text.startswith(prefix)
startswith(text, prefix) ==
    /\ Len(prefix) <= Len(text)
    /\ \A i \in 1..Len(prefix) : text[i] = prefix[i]

(***************************************************************************)
(* The embedded lexicon.  Departments is the iteration order of the dict,  *)
(* which is the order max() resolves ties in.                              *)
(***************************************************************************)
Departments ==
    <<"Executive", "Finance", "Accounting", "Human Resources",
      "Payroll", "Legal", "Administration", "Operations",
      "Facilities", "Information Technology", "Security", "Sales",
      "Marketing", "Customer Service", "Product Management", "Project Management",
      "Procurement", "Supply Chain", "Inventory", "Logistics",
      "Engineering", "Research and Development", "Quality Assurance", "Training",
      "Business Development", "Vendor Management", "Compliance">>

DEPARTMENT_KEYWORDS ==
       "Executive" :>
       <<<<"e","x","e","c","u","t","i","v","e">>,
         <<"c","e","o">>,
         <<"p","r","e","s","i","d","e","n","t">>,
         <<"c","-","s","u","i","t","e">>,
         <<"b","o","a","r","d">>,
         <<"e","x","e","c">>,
         <<"s","t","r","a","t","e","g","y">>,
         <<"l","e","a","d","e","r","s","h","i","p">>,
         <<"f","o","u","n","d","e","r","s">>,
         <<"m","a","n","a","g","e","m","e","n","t"," ","t","e","a","m">>>>
    @@ "Finance" :>
       <<<<"f","i","n","a","n","c","e">>,
         <<"f","i","n","a","n","c","i","a","l","s">>,
         <<"b","u","d","g","e","t","s">>,
         <<"f","o","r","e","c","a","s","t","i","n","g">>,
         <<"e","x","p","e","n","s","e"," ","r","e","p","o","r","t","s">>,
         <<"a","p">>,
         <<"a","r">>,
         <<"a","c","c","o","u","n","t","s"," ","p","a","y","a","b","l","e">>,
         <<"a","c","c","o","u","n","t","s"," ","r","e","c","e","i","v","a","b","l","e">>,
         <<"i","n","v","o","i","c","i","n","g">>,
         <<"p","a","y","m","e","n","t","s">>,
         <<"c","a","s","h","f","l","o","w">>,
         <<"g","e","n","e","r","a","l"," ","l","e","d","g","e","r">>,
         <<"r","e","c","o","n","c","i","l","i","a","t","i","o","n">>>>
    @@ "Accounting" :>
       <<<<"a","c","c","o","u","n","t","i","n","g">>,
         <<"b","o","o","k","k","e","e","p">>,
         <<"b","o","o","k","k","e","e","p","i","n","g">>,
         <<"j","o","u","r","n","a","l"," ","e","n","t","r","i","e","s">>,
         <<"a","u","d","i","t">>,
         <<"b","a","l","a","n","c","e"," ","s","h","e","e","t">>,
         <<"p","r","o","f","i","t"," ","l","o","s","s">>,
         <<"t","r","i","a","l"," ","b","a","l","a","n","c","e">>,
         <<"t","a","x">>,
         <<"1","0","9","9">>,
         <<"w","2">>,
         <<"p","a","y","r","o","l","l"," ","j","o","u","r","n","a","l">>,
         <<"q","b">>,
         <<"q","u","i","c","k","b","o","o","k","s">>,
         <<"m","y","o","b">>,
         <<"s","a","g","e">>,
         <<"p","e","a","c","h","t","r","e","e">>>>
    @@ "Human Resources" :>
       <<<<"h","r">>,
         <<"h","u","m","a","n"," ","r","e","s","o","u","r","c","e","s">>,
         <<"e","m","p","l","o","y","e","e","s">>,
         <<"s","t","a","f","f"," ","r","e","c","o","r","d","s">>,
         <<"r","e","c","r","u","i","t","i","n","g">>,
         <<"h","i","r","i","n","g">>,
         <<"o","n","b","o","a","r","d","i","n","g">>,
         <<"o","f","f","b","o","a","r","d","i","n","g">>,
         <<"b","e","n","e","f","i","t","s">>,
         <<"p","e","r","s","o","n","n","e","l">>,
         <<"t","i","m","e","s","h","e","e","t","s">>,
         <<"a","t","t","e","n","d","a","n","c","e">>,
         <<"p","e","r","f","o","r","m","a","n","c","e"," ","r","e","v","i","e","w","s">>,
         <<"r","e","s","u","m","e","s">>,
         <<"a","p","p","l","i","c","a","n","t","s">>,
         <<"t","r","a","i","n","i","n","g"," ","r","e","c","o","r","d","s">>>>
    @@ "Payroll" :>
       <<<<"p","a","y","r","o","l","l">>,
         <<"p","a","y","s","t","u","b","s">>,
         <<"p","a","y","s","l","i","p","s">>,
         <<"c","o","m","p","e","n","s","a","t","i","o","n">>,
         <<"s","a","l","a","r","y">>,
         <<"w","a","g","e","s">>,
         <<"d","e","d","u","c","t","i","o","n","s">>,
         <<"t","i","m","e","c","a","r","d","s">>,
         <<"a","d","p">>,
         <<"p","a","y","c","h","e","x">>,
         <<"i","n","t","u","i","t"," ","p","a","y","r","o","l","l">>>>
    @@ "Legal" :>
       <<<<"l","e","g","a","l">>,
         <<"c","o","n","t","r","a","c","t","s">>,
         <<"a","g","r","e","e","m","e","n","t","s">>,
         <<"n","d","a">>,
         <<"l","i","t","i","g","a","t","i","o","n">>,
         <<"c","o","m","p","l","i","a","n","c","e"," ","d","o","c","s">>,
         <<"p","o","l","i","c","i","e","s">>,
         <<"t","e","r","m","s">>,
         <<"l","i","c","e","n","s","i","n","g">>,
         <<"t","r","a","d","e","m","a","r","k","s">>,
         <<"p","a","t","e","n","t","s">>,
         <<"r","e","g","u","l","a","t","o","r","y">>,
         <<"c","o","u","n","s","e","l">>>>
    @@ "Administration" :>
       <<<<"a","d","m","i","n">>,
         <<"a","d","m","i","n","i","s","t","r","a","t","i","o","n">>,
         <<"o","f","f","i","c","e"," ","a","d","m","i","n">>,
         <<"c","l","e","r","i","c","a","l">>,
         <<"s","c","h","e","d","u","l","e","s">>,
         <<"f","o","r","m","s">>,
         <<"p","r","o","c","e","d","u","r","e","s">>,
         <<"t","e","m","p","l","a","t","e","s">>,
         <<"p","o","l","i","c","i","e","s">>,
         <<"c","o","r","r","e","s","p","o","n","d","e","n","c","e">>,
         <<"m","e","m","o","s">>>>
    @@ "Operations" :>
       <<<<"o","p","e","r","a","t","i","o","n","s">>,
         <<"o","p","s">>,
         <<"p","r","o","c","e","d","u","r","e","s">>,
         <<"w","o","r","k","f","l","o","w">>,
         <<"p","r","o","c","e","s","s"," ","d","o","c","s">>,
         <<"s","o","p">>,
         <<"p","r","o","d","u","c","t","i","o","n"," ","s","c","h","e","d","u","l","e">>,
         <<"m","a","i","n","t","e","n","a","n","c","e">>,
         <<"s","c","h","e","d","u","l","i","n","g">>,
         <<"d","i","s","p","a","t","c","h">>,
         <<"c","a","p","a","c","i","t","y"," ","p","l","a","n","n","i","n","g">>>>
    @@ "Facilities" :>
       <<<<"f","a","c","i","l","i","t","i","e","s">>,
         <<"m","a","i","n","t","e","n","a","n","c","e">>,
         <<"b","u","i","l","d","i","n","g">>,
         <<"p","r","o","p","e","r","t","y">>,
         <<"l","e","a","s","e">>,
         <<"o","f","f","i","c","e"," ","l","a","y","o","u","t">>,
         <<"s","a","f","e","t","y">>,
         <<"s","e","c","u","r","i","t","y">>,
         <<"j","a","n","i","t","o","r","i","a","l">>,
         <<"e","q","u","i","p","m","e","n","t"," ","l","o","g","s">>,
         <<"h","v","a","c">>,
         <<"i","n","s","p","e","c","t","i","o","n">>>>
    @@ "Information Technology" :>
       <<<<"i","t">>,
         <<"i","n","f","o","r","m","a","t","i","o","n"," ","t","e","c","h","n","o","l","o","g","y">>,
         <<"n","e","t","w","o","r","k">>,
         <<"s","y","s","t","e","m","s">>,
         <<"i","n","f","r","a","s","t","r","u","c","t","u","r","e">>,
         <<"s","e","r","v","e","r","s">>,
         <<"b","a","c","k","u","p","s">>,
         <<"h","e","l","p","d","e","s","k">>,
         <<"s","u","p","p","o","r","t"," ","t","i","c","k","e","t","s">>,
         <<"s","o","f","t","w","a","r","e">>,
         <<"h","a","r","d","w","a","r","e">>,
         <<"c","o","n","f","i","g","s">>,
         <<"l","o","g","s">>,
         <<"e","n","d","p","o","i","n","t","s">>,
         <<"s","e","c","u","r","i","t","y">>,
         <<"v","p","n">>,
         <<"f","i","r","e","w","a","l","l">>,
         <<"g","r","o","u","p"," ","p","o","l","i","c","y">>>>
    @@ "Security" :>
       <<<<"s","e","c","u","r","i","t","y">>,
         <<"i","n","f","o","s","e","c">>,
         <<"c","y","b","e","r">>,
         <<"a","n","t","i","v","i","r","u","s">>,
         <<"m","o","n","i","t","o","r","i","n","g">>,
         <<"s","o","c">>,
         <<"i","n","c","i","d","e","n","t","s">>,
         <<"b","r","e","a","c","h","e","s">>,
         <<"p","o","l","i","c","i","e","s">>,
         <<"c","r","e","d","e","n","t","i","a","l","s">>,
         <<"e","n","c","r","y","p","t","i","o","n">>,
         <<"r","i","s","k"," ","a","s","s","e","s","s","m","e","n","t">>>>
    @@ "Sales" :>
       <<<<"s","a","l","e","s">>,
         <<"c","r","m">>,
         <<"l","e","a","d","s">>,
         <<"o","p","p","o","r","t","u","n","i","t","i","e","s">>,
         <<"q","u","o","t","e","s">>,
         <<"p","r","o","p","o","s","a","l","s">>,
         <<"o","r","d","e","r","s">>,
         <<"c","u","s","t","o","m","e","r","s">>,
         <<"p","i","p","e","l","i","n","e","s">>,
         <<"f","o","r","e","c","a","s","t","s">>,
         <<"c","o","m","m","i","s","s","i","o","n","s">>,
         <<"s","f">>,
         <<"s","a","l","e","s","f","o","r","c","e">>>>
    @@ "Marketing" :>
       <<<<"m","a","r","k","e","t","i","n","g">>,
         <<"c","a","m","p","a","i","g","n","s">>,
         <<"a","d","s">>,
         <<"a","d","v","e","r","t","i","s","i","n","g">>,
         <<"b","r","a","n","d","i","n","g">>,
         <<"c","o","l","l","a","t","e","r","a","l">>,
         <<"f","l","y","e","r","s">>,
         <<"s","o","c","i","a","l"," ","m","e","d","i","a">>,
         <<"w","e","b","s","i","t","e">>,
         <<"s","e","o">>,
         <<"s","e","m">>,
         <<"n","e","w","s","l","e","t","t","e","r","s">>,
         <<"c","o","n","t","e","n","t">>,
         <<"c","r","e","a","t","i","v","e">>,
         <<"g","r","a","p","h","i","c","s">>,
         <<"m","e","d","i","a">>,
         <<"e","v","e","n","t","s">>>>
    @@ "Customer Service" :>
       <<<<"c","u","s","t","o","m","e","r"," ","s","e","r","v","i","c","e">>,
         <<"s","u","p","p","o","r","t">>,
         <<"t","i","c","k","e","t","s">>,
         <<"c","a","s","e","s">>,
         <<"c","o","m","p","l","a","i","n","t","s">>,
         <<"f","e","e","d","b","a","c","k">>,
         <<"r","e","t","u","r","n","s">>,
         <<"h","e","l","p","d","e","s","k">>,
         <<"c","u","s","t","o","m","e","r","s">>,
         <<"s","a","t","i","s","f","a","c","t","i","o","n">>,
         <<"w","a","r","r","a","n","t","y">>>>
    @@ "Product Management" :>
       <<<<"p","r","o","d","u","c","t">>,
         <<"r","o","a","d","m","a","p">>,
         <<"f","e","a","t","u","r","e","s">>,
         <<"s","p","e","c","s">>,
         <<"b","a","c","k","l","o","g">>,
         <<"r","e","l","e","a","s","e"," ","n","o","t","e","s">>,
         <<"p","l","a","n","n","i","n","g">>,
         <<"r","e","q","u","i","r","e","m","e","n","t","s">>,
         <<"p","r","d">>,
         <<"e","p","i","c">>,
         <<"j","i","r","a"," ","e","x","p","o","r","t","s">>>>
    @@ "Project Management" :>
       <<<<"p","r","o","j","e","c","t","s">>,
         <<"p","m">>,
         <<"g","a","n","t","t">>,
         <<"s","c","h","e","d","u","l","e">>,
         <<"t","i","m","e","l","i","n","e","s">>,
         <<"m","i","l","e","s","t","o","n","e","s">>,
         <<"d","e","l","i","v","e","r","a","b","l","e","s">>,
         <<"s","c","o","p","e">>,
         <<"p","m","o">>,
         <<"c","l","i","e","n","t"," ","p","r","o","j","e","c","t","s">>,
         <<"r","e","s","o","u","r","c","e","s">>>>
    @@ "Procurement" :>
       <<<<"p","r","o","c","u","r","e","m","e","n","t">>,
         <<"p","u","r","c","h","a","s","i","n","g">>,
         <<"o","r","d","e","r","s">>,
         <<"s","u","p","p","l","i","e","r","s">>,
         <<"v","e","n","d","o","r","s">>,
         <<"r","e","q","u","i","s","i","t","i","o","n","s">>,
         <<"p","o">>,
         <<"p","u","r","c","h","a","s","e"," ","o","r","d","e","r","s">>,
         <<"q","u","o","t","e","s">>,
         <<"b","i","d","s">>,
         <<"s","o","u","r","c","i","n","g">>>>
    @@ "Supply Chain" :>
       <<<<"s","u","p","p","l","y"," ","c","h","a","i","n">>,
         <<"l","o","g","i","s","t","i","c","s">>,
         <<"i","n","v","e","n","t","o","r","y">>,
         <<"f","u","l","f","i","l","l","m","e","n","t">>,
         <<"d","i","s","t","r","i","b","u","t","i","o","n">>,
         <<"w","a","r","e","h","o","u","s","e">>,
         <<"s","h","i","p","p","i","n","g">>,
         <<"r","e","c","e","i","v","i","n","g">>,
         <<"t","r","a","c","k","i","n","g">>,
         <<"s","u","p","p","l","y">>,
         <<"d","e","m","a","n","d">>>>
    @@ "Inventory" :>
       <<<<"i","n","v","e","n","t","o","r","y">>,
         <<"s","t","o","c","k">>,
         <<"s","k","u">>,
         <<"i","t","e","m","s">>,
         <<"p","a","r","t","s">>,
         <<"a","s","s","e","t","s">>,
         <<"w","a","r","e","h","o","u","s","e">>,
         <<"s","u","p","p","l","i","e","s">>,
         <<"b","i","n","s">>,
         <<"c","o","u","n","t","s">>,
         <<"r","e","o","r","d","e","r">>,
         <<"i","n","v","e","n","t","o","r","y"," ","r","e","p","o","r","t">>>>
    @@ "Logistics" :>
       <<<<"l","o","g","i","s","t","i","c","s">>,
         <<"s","h","i","p","p","i","n","g">>,
         <<"d","e","l","i","v","e","r","y">>,
         <<"f","r","e","i","g","h","t">>,
         <<"t","r","a","n","s","p","o","r","t">>,
         <<"r","o","u","t","i","n","g">>,
         <<"t","r","u","c","k","i","n","g">>,
         <<"c","a","r","r","i","e","r","s">>,
         <<"d","i","s","p","a","t","c","h">>,
         <<"p","a","c","k","i","n","g"," ","s","l","i","p","s">>,
         <<"m","a","n","i","f","e","s","t","s">>>>
    @@ "Engineering" :>
       <<<<"e","n","g","i","n","e","e","r","i","n","g">>,
         <<"d","e","s","i","g","n">>,
         <<"c","a","d">>,
         <<"d","r","a","w","i","n","g","s">>,
         <<"b","l","u","e","p","r","i","n","t","s">>,
         <<"s","c","h","e","m","a","t","i","c","s">>,
         <<"c","a","l","c","u","l","a","t","i","o","n","s">>,
         <<"s","p","e","c","s">>,
         <<"r","&","d">>,
         <<"p","r","o","t","o","t","y","p","e">>,
         <<"t","e","s","t","i","n","g">>,
         <<"s","i","m","u","l","a","t","i","o","n">>>>
    @@ "Research and Development" :>
       <<<<"r","e","s","e","a","r","c","h">>,
         <<"d","e","v","e","l","o","p","m","e","n","t">>,
         <<"r","n","d">>,
         <<"l","a","b">>,
         <<"e","x","p","e","r","i","m","e","n","t","s">>,
         <<"i","n","n","o","v","a","t","i","o","n">>,
         <<"p","a","t","e","n","t","s">>,
         <<"t","r","i","a","l","s">>,
         <<"f","o","r","m","u","l","a","t","i","o","n","s">>,
         <<"t","e","s","t","i","n","g">>,
         <<"r","e","p","o","r","t","s">>>>
    @@ "Quality Assurance" :>
       <<<<"q","a">>,
         <<"q","c">>,
         <<"q","u","a","l","i","t","y">>,
         <<"i","n","s","p","e","c","t","i","o","n">>,
         <<"d","e","f","e","c","t","s">>,
         <<"a","u","d","i","t","s">>,
         <<"s","t","a","n","d","a","r","d","s">>,
         <<"t","e","s","t","i","n","g">>,
         <<"n","o","n","c","o","n","f","o","r","m","a","n","c","e">>,
         <<"c","o","r","r","e","c","t","i","v","e"," ","a","c","t","i","o","n","s">>,
         <<"i","s","o">>,
         <<"r","e","p","o","r","t","s">>>>
    @@ "Training" :>
       <<<<"t","r","a","i","n","i","n","g">>,
         <<"l","e","a","r","n","i","n","g">>,
         <<"l","m","s">>,
         <<"e","d","u","c","a","t","i","o","n">>,
         <<"o","n","b","o","a","r","d","i","n","g">>,
         <<"t","u","t","o","r","i","a","l","s">>,
         <<"c","e","r","t","i","f","i","c","a","t","i","o","n">>,
         <<"c","o","u","r","s","e">>,
         <<"d","e","v","e","l","o","p","m","e","n","t"," ","p","l","a","n">>,
         <<"s","a","f","e","t","y"," ","t","r","a","i","n","i","n","g">>>>
    @@ "Business Development" :>
       <<<<"b","u","s","i","n","e","s","s"," ","d","e","v">>,
         <<"b","i","z","d","e","v">>,
         <<"p","a","r","t","n","e","r","s","h","i","p","s">>,
         <<"o","p","p","o","r","t","u","n","i","t","i","e","s">>,
         <<"m","e","r","g","e","r","s">>,
         <<"a","l","l","i","a","n","c","e","s">>,
         <<"j","o","i","n","t"," ","v","e","n","t","u","r","e","s">>,
         <<"p","r","o","p","o","s","a","l","s">>,
         <<"g","r","o","w","t","h">>>>
    @@ "Vendor Management" :>
       <<<<"v","e","n","d","o","r">>,
         <<"s","u","p","p","l","i","e","r">>,
         <<"p","a","r","t","n","e","r">>,
         <<"a","g","r","e","e","m","e","n","t","s">>,
         <<"o","n","b","o","a","r","d","i","n","g">>,
         <<"e","v","a","l","u","a","t","i","o","n","s">>,
         <<"s","c","o","r","e","c","a","r","d","s">>,
         <<"c","o","m","p","l","i","a","n","c","e"," ","d","o","c","s">>,
         <<"p","u","r","c","h","a","s","e"," ","o","r","d","e","r","s">>>>
    @@ "Compliance" :>
       <<<<"c","o","m","p","l","i","a","n","c","e">>,
         <<"p","o","l","i","c","y">>,
         <<"a","u","d","i","t">>,
         <<"r","e","g","u","l","a","t","i","o","n">>,
         <<"i","s","o">>,
         <<"s","o","c","2">>,
         <<"g","d","p","r">>,
         <<"h","i","p","a","a">>,
         <<"c","e","r","t","i","f","i","c","a","t","i","o","n">>,
         <<"d","o","c","u","m","e","n","t","a","t","i","o","n">>,
         <<"r","i","s","k"," ","r","e","g","i","s","t","e","r">>,
         <<"s","t","a","n","d","a","r","d","s">>>>

(***************************************************************************)
(* Scoring                                                                 *)
(***************************************************************************)
\* fixed-point unit: the float 1.0
Unit == 10

\* the context weight 0.3 of the parent path, in tenths
PATH_WEIGHT == 3

\* the weight 5.0 of the folder's own name
FOLDER_NAME_WEIGHT == 5

\* the weight 1.0 of a file below the folder
FILE_WEIGHT == 1

\* the weight 3.0 of an immediate subfolder
SUBFOLDER_WEIGHT == 3

Unclassified == "Unclassified"

DeptSet == Range(Departments)

\* a Python dict with the entries of the function f, every value computed
as_dict(f) ==
    f @@ <<>>

\* the inner loop `for kw_token in keyword_tokens: if kw_token in tokens`
RECURSIVE token_matches(_, _)
token_matches(keyword_tokens, tokens) ==
    IF keyword_tokens = <<>> THEN 0
    ELSE (IF Head(keyword_tokens) \in Range(tokens) THEN 1 ELSE 0)
         + token_matches(Tail(keyword_tokens), tokens)

\* a variant of keyword_score without the bonus of the substring branch
keyword_score_no_bonus(keyword, tokens, tokens_str) ==
    LET keyword_tokens == split(keyword)
    IN  IF IsSubstring(keyword, tokens_str)
        THEN Len(keyword_tokens)
        ELSE token_matches(keyword_tokens, tokens)

\* a variant of keyword_score that does not stop at the substring branch
keyword_score_both(keyword, tokens, tokens_str) ==
    LET keyword_tokens == split(keyword)
    IN  (IF IsSubstring(keyword, tokens_str) THEN Len(keyword_tokens) * 2 ELSE 0)
        + token_matches(keyword_tokens, tokens)

\* one iteration of the loop over the keywords: what it adds to score
keyword_score(keyword, tokens, tokens_str) ==
    LET keyword_tokens == split(keyword)
    IN  IF IsSubstring(keyword, tokens_str)
        THEN Len(keyword_tokens) * 2
        ELSE token_matches(keyword_tokens, tokens)

\* the loop `for keyword in department_keywords` with its running score
RECURSIVE score_keywords(_, _, _, _)
score_keywords(department_keywords, tokens, tokens_str, score) ==
    IF department_keywords = <<>> THEN score
    ELSE score_keywords(Tail(department_keywords), tokens, tokens_str,
                        score + keyword_score(Head(department_keywords),
                                              tokens, tokens_str))

\* DepartmentClassifier.score_text
score_text(text, department_keywords) ==
    LET tokens == tokenize(text)
    IN  IF tokens = <<>> THEN 0
        ELSE score_keywords(department_keywords, tokens, join(<<" ">>, tokens), 0)

\* max(scores.values())
max_value(scores) ==
    CHOOSE v \in {scores[d] : d \in DOMAIN scores} :
        \A d \in DOMAIN scores : scores[d] <= v

\* a variant of max_key that takes the last key holding the maximum
max_key_last(scores) ==
    Departments[CHOOSE i \in DOMAIN Departments :
                    /\ scores[Departments[i]] = max_value(scores)
                    /\ \A j \in (i + 1)..Len(Departments) :
                           scores[Departments[j]] # max_value(scores)]

\* max(scores, key=scores.get): the first key, in the dict's order, that
\* holds the maximum
max_key(scores) ==
    Departments[CHOOSE i \in DOMAIN Departments :
                    /\ scores[Departments[i]] = max_value(scores)
                    /\ \A j \in 1..(i - 1) :
                           scores[Departments[j]] # max_value(scores)]

\* a variant of item_scores that gives the parent path the full weight
item_scores_full_path(name, parent_path) ==
    as_dict([dept \in DeptSet |->
            LET name_score == score_text(name, DEPARTMENT_KEYWORDS[dept])
                path_score == score_text(parent_path, DEPARTMENT_KEYWORDS[dept])
            IN  Unit * name_score + Unit * path_score])

\* the loop `for dept, keywords in self.department_keywords.items()` of
\* classify_item: the dict scores, in tenths
item_scores(name, parent_path) ==
    as_dict([dept \in DeptSet |->
            LET name_score == score_text(name, DEPARTMENT_KEYWORDS[dept])
                path_score == score_text(parent_path, DEPARTMENT_KEYWORDS[dept])
            IN  Unit * name_score + PATH_WEIGHT * path_score])

\* DepartmentClassifier.classify_item: (department, scores)
classify_item(name, parent_path) ==
    LET scores == item_scores(name, parent_path)
    IN  IF max_value(scores) > 0
        THEN <<max_key(scores), scores>>
        ELSE <<Unclassified, scores>>

\* classify_item(name) tabulated over a set of names: classify_item is a pure
\* function of the name and the lexicon, so its value is computed once per name
tabulate_items(names) ==
    as_dict([name \in names |-> classify_item(name, <<>>)])

(***************************************************************************)
(* Paths (pathlib, Windows flavour)                                        *)
(***************************************************************************)
SEP == "\\"

\* str.count('\\')
count_separators(path) ==
    Cardinality({i \in DOMAIN path : path[i] = SEP})

\* the components of Path(path): split on '\' and '/', empty components
\* dropped; the first component of an absolute path is its drive
Path(path) ==
    runs(path, {i \in DOMAIN path : path[i] \notin {SEP, "/"}})

\* Path.parent: the anchor (drive and root) is its own parent
parent(parts) ==
    IF Len(parts) <= 1 THEN parts ELSE SubSeq(parts, 1, Len(parts) - 1)

\* Path.__eq__ on Windows: component-wise, ignoring case
path_eq(a, b) ==
    /\ Len(a) = Len(b)
    /\ \A i \in 1..Len(a) : lower(a[i]) = lower(b[i])

\* str(Path): drive, root, and the components joined by '\'
path_str(parts) ==
    IF parts = <<>> THEN <<".">>
    ELSE parts[1] \o <<SEP>> \o join(<<SEP>>, Tail(parts))

\* the Name column of a row: the last component; a drive root is named by
\* its path
basename(path) ==
    IF Len(Path(path)) <= 1 THEN path ELSE Path(path)[Len(Path(path))]

(***************************************************************************)
(* The input tables that are explored                                      *)
(***************************************************************************)
MaxFolders == 3

MaxFiles == 2

FolderPaths ==
    { <<"C",":","\\">>,
      <<"C",":","\\","F","i","n","a","n","c","e">>,
      <<"C",":","\\","F","i","n","a","n","c","e","\\","m","i","s","c">>,
      <<"C",":","\\","F","i","n","a","n","c","e","\\","L","e","g","a","l">>,
      <<"C",":","\\","F","i","n","a","n","c","e","\\","L","e","g","a","l","\\","P","a","y","r","o","l","l"," ","A","r","c","h","i","v","e">>,
      <<"C",":","\\","m","i","s","c">> }

FilePaths ==
    { <<"C",":","\\","F","i","n","a","n","c","e","\\","L","e","g","a","l","\\","P","a","y","r","o","l","l"," ","A","r","c","h","i","v","e","\\","t","i","m","e","c","a","r","d","s","_","2","0","2","3",".","x","l","s","x">>,
      <<"C",":","\\","F","i","n","a","n","c","e","\\","m","i","s","c","\\","m","e","m","o",".","d","o","c","x">>,
      <<"C",":","\\","m","i","s","c","\\","a","u","d","i","t",".","p","d","f">>,
      <<"C",":","\\","b","u","d","g","e","t","s",".","t","x","t">> }

Row(path, type) ==
    [Path |-> path, Name |-> basename(path), Type |-> type]

Tables ==
    { {Row(p, "Folder") : p \in fs} \cup {Row(p, "File") : p \in ls} :
        fs \in {s \in SUBSET FolderPaths : Cardinality(s) <= MaxFolders},
        ls \in {s \in SUBSET FilePaths : Cardinality(s) <= MaxFiles} }

\* the row orders of a set of rows
Orders(rows) ==
    {s \in [1..Cardinality(rows) -> rows] :
        \A i, j \in DOMAIN s : i # j => s[i] # s[j]}

\* classify_item on the names of the explored tables
ITEMS ==
    tabulate_items({basename(p) : p \in FolderPaths \cup FilePaths})

(***************************************************************************)
(* State                                                                   *)
(***************************************************************************)
VARIABLES
    df,                     \* the input table, a set of rows
    pc,                     \* position in the function that is running
    folders_df,             \* the Folder rows, sorted by depth
    files_df,               \* the File rows, in table order
    idx,                    \* rows of the current loop already processed
    dept_scores,            \* the accumulator of the folder processed last
    folder_classifications, \* folder path -> department
    folder_confidence,      \* folder path -> confidence (tenths)
    current_path,           \* the ancestor the walk of Pass 2 stands on
    classification,         \* the department found by the walk
    file_classifications,   \* file path -> department
    arg_text,               \* score_text: its text argument
    arg_keywords,           \* score_text: its keyword list
    ret_score,              \* score_text: its return value (-1: not returned)
    arg_name,               \* classify_item: its name argument
    arg_parent_path,        \* classify_item: its parent_path argument
    ret_item                \* classify_item: the pair it returns (<<>>: not returned)

vars ==
    <<df, pc, folders_df, files_df, idx, dept_scores, folder_classifications,
      folder_confidence, current_path, classification, file_classifications,
      arg_text, arg_keywords, ret_score, arg_name, arg_parent_path, ret_item>>

hierarchy_vars ==
    <<df, folders_df, files_df, idx, dept_scores, folder_classifications,
      folder_confidence, current_path, classification, file_classifications>>

item_vars ==
    <<arg_name, arg_parent_path, ret_item>>

\* the arguments and results of score_text and classify_item called on
\* their own
score_vars ==
    <<arg_text, arg_keywords, ret_score, item_vars>>

(***************************************************************************)
(* classify_hierarchy                                                      *)
(***************************************************************************)
\* dict.get(key, default)
get(dict, key, default) ==
    IF key \in DOMAIN dict THEN dict[key] ELSE default

\* dict[key] = value
set(dict, key, value) ==
    (key :> value) @@ dict

\* the loop `for dept, score in scores.items(): dept_scores[dept] += score * weight`
\* (dept_scores is a defaultdict(float): a missing key reads 0)
add_scores(scores, weight, acc) ==
    as_dict([dept \in DOMAIN acc \cup DOMAIN scores |->
            get(acc, dept, 0) + get(scores, dept, 0) * weight])

\* files_df[files_df['Path'].str.startswith(folder_path + '\\')]
folder_files(files, folder_path) ==
    SelectSeq(files, LAMBDA row : startswith(row.Path, folder_path \o <<SEP>>))

\* step 2: the loop over the files below the folder
RECURSIVE add_file_scores(_, _)
add_file_scores(rows, acc) ==
    IF rows = <<>> THEN acc
    ELSE add_file_scores(Tail(rows),
                         add_scores(ITEMS[Head(rows).Name][2], FILE_WEIGHT, acc))

\* a variant of immediate_subfolders that takes the subfolders of any depth
immediate_subfolders_any_depth(classifications, folder_path) ==
    {fp \in DOMAIN classifications :
        /\ Len(Path(fp)) > Len(Path(folder_path))
        /\ path_eq(SubSeq(Path(fp), 1, Len(Path(folder_path))), Path(folder_path))}

\* [fp for fp in folder_classifications.keys()
\*     if Path(fp).parent == Path(folder_path)]
immediate_subfolders(classifications, folder_path) ==
    {fp \in DOMAIN classifications : path_eq(parent(Path(fp)), Path(folder_path))}

\* step 3: the loop over the immediate subfolders
RECURSIVE add_subfolder_scores(_, _, _, _)
add_subfolder_scores(subfolders, classifications, confidences, acc) ==
    IF subfolders = {} THEN acc
    ELSE LET subfolder_path == CHOOSE fp \in subfolders : TRUE
             subfolder_dept == classifications[subfolder_path]
             rest == add_subfolder_scores(subfolders \ {subfolder_path},
                                          classifications, confidences, acc)
         IN  IF subfolder_dept # Unclassified
             THEN set(rest, subfolder_dept,
                      get(rest, subfolder_dept, 0)
                      + get(confidences, subfolder_path, Unit) * SUBFOLDER_WEIGHT)
             ELSE rest

\* steps 1 to 3: the accumulator dept_scores of one folder
folder_scores(folder_row, files, classifications, confidences) ==
    LET own == add_scores(ITEMS[folder_row.Name][2], FOLDER_NAME_WEIGHT, <<>>)
        with_files == add_file_scores(folder_files(files, folder_row.Path), own)
    IN  add_subfolder_scores(
            immediate_subfolders(classifications, folder_row.Path),
            classifications, confidences, with_files)

\* a variant of best_dept that accepts a maximum of 0
best_dept_zero_max(scores) ==
    IF DOMAIN scores # {} /\ max_value(scores) >= 0
    THEN max_key(scores)
    ELSE Unclassified

\* step 4: the department of an accumulator
best_dept(scores) ==
    IF DOMAIN scores # {} /\ max_value(scores) > 0
    THEN max_key(scores)
    ELSE Unclassified

\* a variant of confidence that falls back to 1.0, the default of the
\* lookup in step 3
confidence_default_one(scores) ==
    IF DOMAIN scores # {} /\ max_value(scores) > 0
    THEN scores[max_key(scores)]
    ELSE Unit

\* step 4: the confidence of an accumulator
confidence(scores) ==
    IF DOMAIN scores # {} /\ max_value(scores) > 0
    THEN scores[max_key(scores)]
    ELSE 0

\* folders_df.sort_values('Depth', ascending=False): the Folder rows in an
\* order of non-increasing depth; the order of rows of equal depth is the
\* sort's choice
sorted_folders(table) ==
    {s \in Orders({row \in table : row.Type = "Folder"}) :
        \A i, j \in DOMAIN s :
            i < j => count_separators(s[i].Path) >= count_separators(s[j].Path)}

Init ==
    /\ df \in Tables
    /\ pc = "start"
    /\ folders_df = <<>>
    /\ files_df = <<>>
    /\ idx = 0
    /\ dept_scores = <<>>
    /\ folder_classifications = <<>>
    /\ folder_confidence = <<>>
    /\ current_path = <<>>
    /\ classification = Unclassified
    /\ file_classifications = <<>>
    /\ arg_text = <<>>
    /\ arg_keywords = <<>>
    /\ ret_score = -1
    /\ arg_name = <<>>
    /\ arg_parent_path = <<>>
    /\ ret_item = <<>>

\* lines 163-174: split the table, sort the folders, empty mappings
Prepare ==
    /\ pc = "start"
    /\ folders_df' \in sorted_folders(df)
    /\ files_df' \in Orders({row \in df : row.Type = "File"})
    /\ folder_classifications' = <<>>
    /\ folder_confidence' = <<>>
    /\ idx' = 0
    /\ pc' = "pass1"
    /\ UNCHANGED <<df, dept_scores, current_path, classification,
                   file_classifications, score_vars>>

\* lines 179-218: one iteration of the loop over the folders
ClassifyFolder ==
    /\ pc = "pass1"
    /\ idx < Len(folders_df)
    /\ LET folder_row == folders_df[idx + 1]
       IN  /\ dept_scores' = folder_scores(folder_row, files_df,
                                           folder_classifications, folder_confidence)
           /\ folder_classifications' =
                  set(folder_classifications, folder_row.Path, best_dept(dept_scores'))
           /\ folder_confidence' =
                  set(folder_confidence, folder_row.Path, confidence(dept_scores'))
    /\ idx' = idx + 1
    /\ UNCHANGED <<df, pc, folders_df, files_df, current_path, classification,
                   file_classifications, score_vars>>

\* line 223: the loop over the folders is exhausted, Pass 2 begins
BeginFiles ==
    /\ pc = "pass1"
    /\ idx = Len(folders_df)
    /\ file_classifications' = <<>>
    /\ idx' = 0
    /\ pc' = "pass2"
    /\ UNCHANGED <<df, folders_df, files_df, dept_scores, folder_classifications,
                   folder_confidence, current_path, classification, score_vars>>

\* a variant of BeginWalk that starts the walk one folder too high
BeginWalk_from_grandparent ==
    /\ pc = "pass2"
    /\ idx < Len(files_df)
    /\ current_path' = path_str(parent(parent(Path(files_df[idx + 1].Path))))
    /\ classification' = Unclassified
    /\ pc' = "walk"
    /\ UNCHANGED <<df, folders_df, files_df, idx, dept_scores,
                   folder_classifications, folder_confidence,
                   file_classifications, score_vars>>

\* a variant of BeginWalk that keeps the classification of the file before
BeginWalk_stale_classification ==
    /\ pc = "pass2"
    /\ idx < Len(files_df)
    /\ current_path' = path_str(parent(Path(files_df[idx + 1].Path)))
    /\ pc' = "walk"
    /\ UNCHANGED <<df, folders_df, files_df, idx, dept_scores,
                   folder_classifications, folder_confidence, classification,
                   file_classifications, score_vars>>

\* lines 224-230: the next file; the walk starts at its containing folder
BeginWalk ==
    /\ pc = "pass2"
    /\ idx < Len(files_df)
    /\ current_path' = path_str(parent(Path(files_df[idx + 1].Path)))
    /\ classification' = Unclassified
    /\ pc' = "walk"
    /\ UNCHANGED <<df, folders_df, files_df, idx, dept_scores,
                   folder_classifications, folder_confidence,
                   file_classifications, score_vars>>

\* lines 232-235: the ancestor is a key of folder_classifications
WalkFound ==
    /\ pc = "walk"
    /\ current_path # <<>>
    /\ current_path \in DOMAIN folder_classifications
    /\ classification' = folder_classifications[current_path]
    /\ pc' = "assign"
    /\ UNCHANGED <<df, folders_df, files_df, idx, dept_scores,
                   folder_classifications, folder_confidence, current_path,
                   file_classifications, score_vars>>

\* a variant of WalkUp that gives up after the containing folder
WalkUp_gives_up ==
    /\ pc = "walk"
    /\ current_path # <<>>
    /\ current_path \notin DOMAIN folder_classifications
    /\ path_str(parent(Path(current_path))) # current_path
    /\ pc' = "assign"
    /\ UNCHANGED <<df, folders_df, files_df, idx, dept_scores,
                   folder_classifications, folder_confidence, current_path,
                   classification, file_classifications, score_vars>>

\* lines 237-240: not a key, step to the parent
WalkUp ==
    /\ pc = "walk"
    /\ current_path # <<>>
    /\ current_path \notin DOMAIN folder_classifications
    /\ path_str(parent(Path(current_path))) # current_path
    /\ current_path' = path_str(parent(Path(current_path)))
    /\ UNCHANGED <<df, pc, folders_df, files_df, idx, dept_scores,
                   folder_classifications, folder_confidence, classification,
                   file_classifications, score_vars>>

\* a variant of WalkRoot that ends with the department of the file before
WalkRoot_keeps_previous ==
    /\ pc = "walk"
    /\ IF current_path = <<>> THEN TRUE
       ELSE /\ current_path \notin DOMAIN folder_classifications
            /\ path_str(parent(Path(current_path))) = current_path
    /\ classification' =
           IF idx >= 1 THEN file_classifications[files_df[idx].Path]
           ELSE classification
    /\ pc' = "assign"
    /\ UNCHANGED <<df, folders_df, files_df, idx, dept_scores,
                   folder_classifications, folder_confidence, current_path,
                   file_classifications, score_vars>>

\* lines 232, 238-239: the walk ends at the root (or on an empty path)
\* without a classified ancestor
WalkRoot ==
    /\ pc = "walk"
    /\ IF current_path = <<>> THEN TRUE
       ELSE /\ current_path \notin DOMAIN folder_classifications
            /\ path_str(parent(Path(current_path))) = current_path
    /\ pc' = "assign"
    /\ UNCHANGED <<df, folders_df, files_df, idx, dept_scores,
                   folder_classifications, folder_confidence, current_path,
                   classification, file_classifications, score_vars>>

\* a variant of AssignFile that also records the department for the folder
\* the walk ended on
AssignFile_records_folder ==
    /\ pc = "assign"
    /\ file_classifications' =
           set(file_classifications, files_df[idx + 1].Path, classification)
    /\ folder_classifications' =
           set(folder_classifications, current_path, classification)
    /\ idx' = idx + 1
    /\ pc' = "pass2"
    /\ UNCHANGED <<df, folders_df, files_df, dept_scores, folder_confidence,
                   current_path, classification, score_vars>>

\* line 242: record the file's department
AssignFile ==
    /\ pc = "assign"
    /\ file_classifications' =
           set(file_classifications, files_df[idx + 1].Path, classification)
    /\ idx' = idx + 1
    /\ pc' = "pass2"
    /\ UNCHANGED <<df, folders_df, files_df, dept_scores, folder_classifications,
                   folder_confidence, current_path, classification, score_vars>>

\* line 246: return the three mappings
Return ==
    /\ pc = "pass2"
    /\ idx = Len(files_df)
    /\ pc' = "done"
    /\ UNCHANGED <<hierarchy_vars, score_vars>>

Next ==
    \/ Prepare
    \/ ClassifyFolder
    \/ BeginFiles
    \/ BeginWalk
    \/ WalkFound
    \/ WalkUp
    \/ WalkRoot
    \/ AssignFile
    \/ Return

Spec ==
    Init /\ [][Next]_vars

(***************************************************************************)
(* score_text called on its own                                            *)
(***************************************************************************)
Texts ==
    { <<>>,
      <<"_","_","_">>,
      <<"m","i","s","c">>,
      <<"P","a","y","r","o","l","l"," ","A","r","c","h","i","v","e">>,
      <<"t","i","m","e","c","a","r","d","s","_","2","0","2","3",".","x","l","s","x">>,
      <<"G","e","n","e","r","a","l"," ","L","e","d","g","e","r">>,
      <<"e","x","p","e","n","s","e"," ","r","e","p","o","r","t","s">>,
      <<"E","x","p","e","n","s","e","_","R","e","p","o","r","t","s","-","2","0","2","3",".","P","D","F">>,
      <<"l","e","d","g","e","r"," ","g","e","n","e","r","a","l">>,
      <<"p","a","y","a","b","l","e"," ","a","c","c","o","u","n","t","s">>,
      <<"R","&","D">>,
      <<"H","u","m","a","n"," ","R","e","s","o","u","r","c","e","s">> }

KeywordLists ==
    {DEPARTMENT_KEYWORDS[dept] : dept \in DeptSet}
    \cup { <<>>,
           << <<"g","e","n","e","r","a","l"," ","l","e","d","g","e","r">> >>,
           << <<"e","x","p","e","n","s","e"," ","r","e","p","o","r","t","s">> >>,
           << <<"h","u","m","a","n"," ","r","e","s","o","u","r","c","e","s">> >>,
           << <<"a","r">>, <<"a","r">> >> }

InitScore ==
    /\ pc = "score_text"
    /\ arg_text \in Texts
    /\ arg_keywords \in KeywordLists
    /\ ret_score = -1
    /\ arg_name = <<>>
    /\ arg_parent_path = <<>>
    /\ ret_item = <<>>
    /\ df = {}
    /\ folders_df = <<>>
    /\ files_df = <<>>
    /\ idx = 0
    /\ dept_scores = <<>>
    /\ folder_classifications = <<>>
    /\ folder_confidence = <<>>
    /\ current_path = <<>>
    /\ classification = Unclassified
    /\ file_classifications = <<>>

\* lines 105-127: one call of score_text
ScoreText ==
    /\ pc = "score_text"
    /\ ret_score' = score_text(arg_text, arg_keywords)
    /\ pc' = "score_returned"
    /\ UNCHANGED <<hierarchy_vars, arg_text, arg_keywords, item_vars>>

NextScore ==
    ScoreText

SpecScore ==
    InitScore /\ [][NextScore]_vars

(***************************************************************************)
(* classify_item called on its own, with a parent path                     *)
(***************************************************************************)
\* the names and parent paths explored; every score they reach is at most
\* 10, where the floats name_score + path_score * 0.3 of the code compare
\* exactly as the tenths of the model do
Names ==
    { <<>>,
      <<"m","i","s","c">>,
      <<"m","e","m","o",".","d","o","c","x">>,
      <<"L","e","g","a","l">>,
      <<"F","i","n","a","n","c","e">>,
      <<"P","a","y","r","o","l","l"," ","A","r","c","h","i","v","e">>,
      <<"t","i","m","e","c","a","r","d","s","_","2","0","2","3",".","x","l","s","x">>,
      <<"a","u","d","i","t",".","p","d","f">>,
      <<"h","u","m","a","n",".","t","x","t">>,
      <<"G","e","n","e","r","a","l"," ","L","e","d","g","e","r">> }

ParentPaths ==
    { <<>>,
      <<"C",":","\\">>,
      <<"C",":","\\","m","i","s","c">>,
      <<"C",":","\\","F","i","n","a","n","c","e">>,
      <<"C",":","\\","F","i","n","a","n","c","e","\\","L","e","g","a","l">>,
      <<"C",":","\\","F","i","n","a","n","c","e","\\","L","e","g","a","l","\\","P","a","y","r","o","l","l"," ","A","r","c","h","i","v","e">>,
      <<"D",":","\\","S","h","a","r","e","s","\\","H","u","m","a","n"," ","R","e","s","o","u","r","c","e","s">> }

InitItem ==
    /\ pc = "classify_item"
    /\ arg_name \in Names
    /\ arg_parent_path \in ParentPaths
    /\ ret_item = <<>>
    /\ arg_text = <<>>
    /\ arg_keywords = <<>>
    /\ ret_score = -1
    /\ df = {}
    /\ folders_df = <<>>
    /\ files_df = <<>>
    /\ idx = 0
    /\ dept_scores = <<>>
    /\ folder_classifications = <<>>
    /\ folder_confidence = <<>>
    /\ current_path = <<>>
    /\ classification = Unclassified
    /\ file_classifications = <<>>

\* lines 129-146: one call of classify_item
ClassifyItem ==
    /\ pc = "classify_item"
    /\ ret_item' = classify_item(arg_name, arg_parent_path)
    /\ pc' = "item_returned"
    /\ UNCHANGED <<hierarchy_vars, arg_text, arg_keywords, ret_score,
                   arg_name, arg_parent_path>>

NextItem ==
    ClassifyItem

SpecItem ==
    InitItem /\ [][NextItem]_vars

(***************************************************************************)
(* The two loops of classify_hierarchy run as a whole                      *)
(***************************************************************************)
\* lines 229-240: the walk from current_path upward; the classification it
\* ends with
RECURSIVE closest_parent(_, _)
closest_parent(path, classifications) ==
    IF path = <<>> THEN Unclassified
    ELSE IF path \in DOMAIN classifications THEN classifications[path]
    ELSE IF path_str(parent(Path(path))) = path THEN Unclassified
    ELSE closest_parent(path_str(parent(Path(path))), classifications)

\* lines 223-242: the loop over the files, from an empty file_classifications
RECURSIVE classify_files(_, _, _)
classify_files(files, classifications, result) ==
    IF files = <<>> THEN result
    ELSE LET file_path == Head(files).Path
             parent_folder == path_str(parent(Path(file_path)))
         IN  classify_files(Tail(files), classifications,
                            set(result, file_path,
                                closest_parent(parent_folder, classifications)))

\* lines 173-218: the loop over the sorted folders, from the given mappings;
\* (folder_classifications, folder_confidence) after it
RECURSIVE classify_folders(_, _, _, _)
classify_folders(folders, files, classifications, confidences) ==
    IF folders = <<>> THEN <<classifications, confidences>>
    ELSE LET folder_row == Head(folders)
             scores == folder_scores(folder_row, files, classifications, confidences)
         IN  classify_folders(Tail(folders), files,
                              set(classifications, folder_row.Path, best_dept(scores)),
                              set(confidences, folder_row.Path, confidence(scores)))

(***************************************************************************)
(* Notions the properties are stated in: they are defined on the path      *)
(* strings of the table, not through the operators of the program          *)
(***************************************************************************)
FolderEntries ==
    {row.Path : row \in {r \in df : r.Type = "Folder"}}

FileEntries ==
    {row.Path : row \in {r \in df : r.Type = "File"}}

\* path depth = number of path separators
Depth(path) ==
    Cardinality({i \in DOMAIN path : path[i] = "\\"})

\* the text every path below the folder begins with
DirPrefix(folder) ==
    IF folder[Len(folder)] = "\\" THEN folder ELSE folder \o <<"\\">>

\* path lies anywhere under folder
Beneath(path, folder) ==
    /\ Len(path) > Len(DirPrefix(folder))
    /\ SubSeq(path, 1, Len(DirPrefix(folder))) = DirPrefix(folder)

\* folder is the direct parent (the immediate containing folder) of path
ChildOf(path, folder) ==
    /\ Beneath(path, folder)
    /\ \A i \in (Len(DirPrefix(folder)) + 1)..Len(path) : path[i] # "\\"

\* the sum of the values of a function with a finite domain
RECURSIVE SumOf(_)
SumOf(f) ==
    IF DOMAIN f = {} THEN 0
    ELSE LET x == CHOOSE y \in DOMAIN f : TRUE
         IN  f[x] + SumOf([y \in DOMAIN f \ {x} |-> f[y]])

\* the score of a name for a department, in tenths
NameScore(name, dept) ==
    ITEMS[name][2][dept]

\* a folder has just been processed by Pass 1
Processed ==
    pc = "pass1" /\ idx >= 1

\* the row of the folder processed last
LastFolder ==
    folders_df[idx]

(***************************************************************************)
(* C1: Pass 1 processes the folders in non-increasing depth order, and at  *)
(* the moment a folder F is processed every Folder entry of the table      *)
(* whose direct parent is F has already been finalized (its department and *)
(* its confidence are recorded).                                           *)
(***************************************************************************)
C1_ChildrenFinalizedFirst ==
    pc = "pass1" =>
        /\ \A i, j \in DOMAIN folders_df :
               i < j => Depth(folders_df[i].Path) >= Depth(folders_df[j].Path)
        /\ idx < Len(folders_df) =>
               \A sub \in FolderEntries :
                   ChildOf(sub, folders_df[idx + 1].Path) =>
                       /\ sub \in DOMAIN folder_classifications
                       /\ sub \in DOMAIN folder_confidence

(***************************************************************************)
(* C2: the accumulator a folder's verdict is taken from equals, for every  *)
(* department d, 5.0 x the score of the folder's own name for d, plus the  *)
(* name scores for d of every File entry anywhere under the folder, plus   *)
(* 3.0 x the confidences of the already finalized direct subfolders whose  *)
(* department is d; nothing else contributes.                              *)
(***************************************************************************)
C2_FilesBelow(folder) ==
    {row \in df : row.Type = "File" /\ Beneath(row.Path, folder)}

C2_Subfolders(folder, dept) ==
    {sub \in DOMAIN folder_classifications :
        ChildOf(sub, folder) /\ folder_classifications[sub] = dept}

C2_Expected(row, dept) ==
    5 * NameScore(row.Name, dept)
    + SumOf([file \in C2_FilesBelow(row.Path) |-> NameScore(file.Name, dept)])
    + 3 * SumOf([sub \in C2_Subfolders(row.Path, dept) |-> folder_confidence[sub]])

C2_AccumulatorFormula ==
    Processed =>
        /\ DOMAIN dept_scores = DeptSet
        /\ \A dept \in DeptSet : dept_scores[dept] = C2_Expected(LastFolder, dept)

(***************************************************************************)
(* C3: every folder's result has confidence >= 0, is Unclassified if and   *)
(* only if its confidence is 0, and otherwise names a department that      *)
(* attains the maximum of the folder's accumulator, the confidence being   *)
(* that maximum.                                                           *)
(***************************************************************************)
C3_VerdictIsMaximum ==
    /\ \A folder \in DOMAIN folder_classifications :
           /\ folder_confidence[folder] >= 0
           /\ folder_classifications[folder] = Unclassified
                  <=> folder_confidence[folder] = 0
    /\ Processed /\ folder_classifications[LastFolder.Path] # Unclassified =>
           /\ folder_classifications[LastFolder.Path] \in DOMAIN dept_scores
           /\ \A dept \in DOMAIN dept_scores :
                  dept_scores[dept] <= dept_scores[folder_classifications[LastFolder.Path]]
           /\ folder_confidence[LastFolder.Path] =
                  dept_scores[folder_classifications[LastFolder.Path]]

\* a classified folder and an Unclassified one have both been finalized
C3_Witness ==
    /\ Processed
    /\ folder_classifications[LastFolder.Path] # Unclassified
    /\ \E folder \in DOMAIN folder_classifications :
           folder_classifications[folder] = Unclassified
    /\ \E d1, d2 \in DeptSet : dept_scores[d1] > 0 /\ dept_scores[d2] > dept_scores[d1]

(***************************************************************************)
(* C4: folder_classifications and folder_confidence are write-once per     *)
(* key: a step changes them only in Pass 1, by adding the one folder being *)
(* processed, which was not a key before; no recorded value ever changes,  *)
(* neither by a later folder nor by Pass 2; and from the end of Pass 1 on  *)
(* the key set of both mappings is exactly the set of Folder paths.        *)
(***************************************************************************)
C4_Step ==
    /\ \A key \in DOMAIN folder_classifications :
           /\ key \in DOMAIN folder_classifications'
           /\ folder_classifications'[key] = folder_classifications[key]
    /\ \A key \in DOMAIN folder_confidence :
           /\ key \in DOMAIN folder_confidence'
           /\ folder_confidence'[key] = folder_confidence[key]
    /\ (folder_classifications' # folder_classifications
            \/ folder_confidence' # folder_confidence) =>
           /\ pc = "pass1" /\ idx < Len(folders_df)
           /\ folders_df[idx + 1].Path \notin DOMAIN folder_classifications
           /\ folders_df[idx + 1].Path \notin DOMAIN folder_confidence
           /\ DOMAIN folder_classifications' =
                  DOMAIN folder_classifications \cup {folders_df[idx + 1].Path}
           /\ DOMAIN folder_confidence' = DOMAIN folder_classifications'

C4_Keys ==
    pc \in {"pass2", "walk", "assign", "done"} =>
        /\ DOMAIN folder_classifications = FolderEntries
        /\ DOMAIN folder_confidence = FolderEntries

C4_WriteOnce ==
    [][C4_Step]_vars /\ []C4_Keys

\* the run has returned with several folders and files classified
C4_Witness ==
    /\ pc = "done"
    /\ Cardinality(DOMAIN folder_classifications) >= 2
    /\ Cardinality(DOMAIN file_classifications) >= 1

(***************************************************************************)
(* C5: Pass 2 assigns every file the department recorded for the first     *)
(* ancestor, walking upward from its containing folder, that is a key of   *)
(* folder_classifications; an ancestor further up is never used.           *)
(***************************************************************************)
C5_KeyAncestors(file) ==
    {folder \in DOMAIN folder_classifications : Beneath(file, folder)}

\* the nearest of the ancestors that are keys: the one with the longest path
C5_Nearest(file) ==
    CHOOSE folder \in C5_KeyAncestors(file) :
        \A other \in C5_KeyAncestors(file) : Len(other) <= Len(folder)

C5_NearestAncestor ==
    \A file \in DOMAIN file_classifications :
        C5_KeyAncestors(file) # {} =>
            file_classifications[file] = folder_classifications[C5_Nearest(file)]

\* a file took the department of its nearest key ancestor although an
\* ancestor further up holds another department
C5_Witness ==
    \E file \in DOMAIN file_classifications :
        \E far \in C5_KeyAncestors(file) :
            /\ far # C5_Nearest(file)
            /\ folder_classifications[far] # folder_classifications[C5_Nearest(file)]
            /\ folder_classifications[far] # Unclassified
            /\ file_classifications[file] # Unclassified

(***************************************************************************)
(* C6 (as claimed): a file under an unclassified folder whose grandparent  *)
(* folder is classified "Finance" gets "Finance", whether the unclassified *)
(* parent folder is absent from the table or is an entry whose verdict is  *)
(* Unclassified.                                                           *)
(***************************************************************************)
\* the folders that hold the file directly
C6_Parents(file) ==
    {folder \in {SubSeq(file, 1, n) : n \in 1..Len(file)} : ChildOf(file, folder)}

C6_FinanceGrandparent(file, folder) ==
    \E grand \in DOMAIN folder_classifications :
        /\ ChildOf(folder, grand)
        /\ folder_classifications[grand] = "Finance"

C6_Original ==
    \A file \in DOMAIN file_classifications :
        \A folder \in C6_Parents(file) :
            /\ folder \in DOMAIN folder_classifications =>
                   folder_classifications[folder] = Unclassified
            /\ C6_FinanceGrandparent(file, folder)
            => file_classifications[file] = "Finance"

(***************************************************************************)
(* C6 (amended): the file gets "Finance" when the parent folder is absent  *)
(* from the table; when the parent folder is an entry of the table whose   *)
(* verdict is Unclassified, the file gets "Unclassified", the walk         *)
(* stopping at the first key whatever its department.                      *)
(***************************************************************************)
C6_FileInheritance ==
    \A file \in DOMAIN file_classifications :
        \A folder \in C6_Parents(file) :
            C6_FinanceGrandparent(file, folder) =>
                /\ folder \notin DOMAIN folder_classifications =>
                       file_classifications[file] = "Finance"
                /\ (folder \in DOMAIN folder_classifications
                        /\ folder_classifications[folder] = Unclassified) =>
                       file_classifications[file] = Unclassified

\* a file inherited "Finance" from its grandparent over a parent folder that
\* is not in the table
C6_Witness ==
    \E file \in DOMAIN file_classifications :
        \E folder \in C6_Parents(file) :
            /\ C6_FinanceGrandparent(file, folder)
            /\ folder \notin DOMAIN folder_classifications
            /\ file_classifications[file] = "Finance"

(***************************************************************************)
(* C7 (as claimed): every entry of the table whose tokenized name and path *)
(* share no token and no phrase-substring with any department's keywords   *)
(* is Unclassified, with confidence 0 when the entry is a folder.          *)
(***************************************************************************)
\* no keyword of any department fires on the text
C7_NoKeywordFires(string) ==
    \A dept \in DeptSet : score_text(string, DEPARTMENT_KEYWORDS[dept]) = 0

\* the entries of the explored tables whose name and path fire no keyword
C7_SILENT_ENTRIES ==
    {path \in FolderPaths \cup FilePaths :
        C7_NoKeywordFires(basename(path)) /\ C7_NoKeywordFires(path)}

C7_Original ==
    /\ \A folder \in DOMAIN folder_classifications :
           folder \in C7_SILENT_ENTRIES =>
               /\ folder_classifications[folder] = Unclassified
               /\ folder_confidence[folder] = 0
    /\ \A file \in DOMAIN file_classifications :
           file \in C7_SILENT_ENTRIES =>
               file_classifications[file] = Unclassified

(***************************************************************************)
(* C7 (amended): a folder is Unclassified with confidence 0 when its whole *)
(* accumulator is zero: no keyword fires on its own name nor on the name   *)
(* of any File entry under it, and no finalized direct subfolder is        *)
(* classified.  A file is Unclassified when the nearest ancestor that is a *)
(* key of folder_classifications is Unclassified or when it has none.  A   *)
(* name and path without keywords do not suffice.                          *)
(***************************************************************************)
C7_SilentName(name) ==
    \A dept \in DeptSet : NameScore(name, dept) = 0

C7_ZeroAccumulator(row) ==
    /\ C7_SilentName(row.Name)
    /\ \A file \in C2_FilesBelow(row.Path) : C7_SilentName(file.Name)
    /\ \A sub \in DOMAIN folder_classifications :
           ChildOf(sub, row.Path) => folder_classifications[sub] = Unclassified

C7_ZeroScoreUnclassified ==
    /\ \A row \in {r \in df : r.Type = "Folder"} :
           row.Path \in DOMAIN folder_classifications /\ C7_ZeroAccumulator(row) =>
               /\ folder_classifications[row.Path] = Unclassified
               /\ folder_confidence[row.Path] = 0
    /\ \A file \in DOMAIN file_classifications :
           \/ C5_KeyAncestors(file) = {}
           \/ folder_classifications[C5_Nearest(file)] = Unclassified
           => file_classifications[file] = Unclassified

\* a folder with a silent name, a silent file under it and an Unclassified
\* direct subfolder came out Unclassified, and so did the file under it
C7_Witness ==
    \E row \in {r \in df : r.Type = "Folder"} :
        /\ row.Path \in DOMAIN folder_classifications
        /\ C7_ZeroAccumulator(row)
        /\ C2_FilesBelow(row.Path) # {}
        /\ \E sub \in DOMAIN folder_classifications : ChildOf(sub, row.Path)
        /\ folder_classifications[row.Path] = Unclassified
        /\ \E file \in DOMAIN file_classifications :
               /\ C5_KeyAncestors(file) # {}
               /\ C5_Nearest(file) = row.Path
               /\ file_classifications[file] = Unclassified

(***************************************************************************)
(* C8 (as claimed): with the built-in lexicon, one folder "Payroll         *)
(* Archive" holding exactly the file "timecards_2023.xlsx" is classified   *)
(* Payroll with confidence exactly 6.0.                                    *)
(***************************************************************************)
C8_Folder ==
    <<"C",":","\\","F","i","n","a","n","c","e","\\","L","e","g","a","l","\\","P","a","y","r","o","l","l"," ","A","r","c","h","i","v","e">>

C8_File ==
    <<"C",":","\\","F","i","n","a","n","c","e","\\","L","e","g","a","l","\\","P","a","y","r","o","l","l"," ","A","r","c","h","i","v","e","\\","t","i","m","e","c","a","r","d","s","_","2","0","2","3",".","x","l","s","x">>

C8_Table ==
    {[Path |-> C8_Folder, Name |-> <<"P","a","y","r","o","l","l"," ","A","r","c","h","i","v","e">>, Type |-> "Folder"],
     [Path |-> C8_File, Name |-> <<"t","i","m","e","c","a","r","d","s","_","2","0","2","3",".","x","l","s","x">>, Type |-> "File"]}

C8_Original ==
    df = C8_Table /\ pc = "done" =>
        /\ folder_classifications[C8_Folder] = "Payroll"
        /\ folder_confidence[C8_Folder] = 60

(***************************************************************************)
(* C8 (amended): the folder is classified Payroll with confidence exactly  *)
(* 17.0: the name scores 3 for Payroll (2 for the substring 'payroll', 1   *)
(* for the word 'payroll' of 'intuit payroll') at weight 5.0, and the file *)
(* scores 2 for the substring 'timecards' at weight 1.0.                   *)
(***************************************************************************)
C8_ConfidenceExample ==
    df = C8_Table /\ pc = "done" =>
        /\ folder_classifications[C8_Folder] = "Payroll"
        /\ folder_confidence[C8_Folder] = 170
        /\ NameScore(<<"P","a","y","r","o","l","l"," ","A","r","c","h","i","v","e">>, "Payroll") = 30
        /\ NameScore(<<"t","i","m","e","c","a","r","d","s","_","2","0","2","3",".","x","l","s","x">>, "Payroll") = 20

\* the run on the example table has returned
C8_Witness ==
    /\ df = C8_Table
    /\ pc = "done"
    /\ C8_Folder \in DOMAIN folder_confidence
    /\ C8_File \in DOMAIN file_classifications

(***************************************************************************)
(* C9: score_text adds, for each keyword phrase of the list on its own,    *)
(* either 2 x (number of words of the phrase) when the phrase is a         *)
(* substring of the space-joined tokens of the text, or else 1 for each    *)
(* word of the phrase that is a token of the text, never both; the result  *)
(* is the sum over the phrases, 0 when the text has no tokens, and 4 for a *)
(* name that is exactly a two-word phrase.                                 *)
(***************************************************************************)
C9_Words(phrase) ==
    split(phrase)

\* what one phrase adds, given the tokens of the text and their join
C9_PhraseScore(phrase, tokens, joined) ==
    IF IsSubstring(phrase, joined)
    THEN 2 * Len(C9_Words(phrase))
    ELSE Cardinality({i \in DOMAIN C9_Words(phrase) :
                         \E t \in DOMAIN tokens : tokens[t] = C9_Words(phrase)[i]})

C9_Expected(string, phrases) ==
    IF Len(tokenize(string)) = 0 THEN 0
    ELSE SumOf([i \in DOMAIN phrases |->
                   C9_PhraseScore(phrases[i], tokenize(string),
                                  join(<<" ">>, tokenize(string)))])

C9_ScoreText ==
    pc = "score_returned" =>
        /\ ret_score = C9_Expected(arg_text, arg_keywords)
        /\ (Len(arg_keywords) = 1 /\ Len(C9_Words(arg_keywords[1])) = 2
                /\ lower(arg_text) = arg_keywords[1]) => ret_score = 4

\* score_text has returned 4 for a name that is exactly the two-word phrase,
\* and 2 where the two words match only one by one
C9_Witness ==
    /\ pc = "score_returned"
    /\ Len(arg_keywords) = 1
    /\ Len(C9_Words(arg_keywords[1])) = 2
    /\ \/ lower(arg_text) = arg_keywords[1] /\ ret_score = 4
       \/ ~IsSubstring(arg_keywords[1], join(<<" ">>, tokenize(arg_text)))
              /\ ret_score = 2

(***************************************************************************)
(* C10: for a File entry none of whose ancestors, up to and including the  *)
(* root, is a key of folder_classifications, the walk of Pass 2 ends       *)
(* without an error and the file is assigned Unclassified; on return       *)
(* file_classifications has exactly one entry for every File entry.        *)
(***************************************************************************)
C10_Fallback ==
    /\ \A file \in DOMAIN file_classifications :
           C5_KeyAncestors(file) = {} => file_classifications[file] = Unclassified
    /\ pc = "done" => DOMAIN file_classifications = FileEntries
    /\ pc \in {"walk", "assign"} =>
           /\ idx < Len(files_df)
           /\ current_path # <<>>
           /\ Beneath(files_df[idx + 1].Path, current_path)

\* every step of the walk moves to a strictly shorter path, so the walk ends
C10_WalkShortens ==
    pc = "walk" /\ pc' = "walk" => Len(current_path') < Len(current_path)

C10_OrphanedFile ==
    []C10_Fallback /\ [][C10_WalkShortens]_vars

\* an orphaned file has been assigned Unclassified after a file that has a
\* classified ancestor
C10_Witness ==
    /\ pc = "done"
    /\ \E file \in DOMAIN file_classifications : C5_KeyAncestors(file) = {}
    /\ \E file \in DOMAIN file_classifications :
           file_classifications[file] # Unclassified

(***************************************************************************)
(* C11: Pass 2 is idempotent and independent of the order of the files:    *)
(* against the finalized folder mapping, running the file loop over the    *)
(* File entries in any order, once or again, gives every file the          *)
(* department the run recorded for it; every department already recorded   *)
(* is the one the walk from the file's folder ends with; and no step of    *)
(* Pass 2 changes folder_classifications or folder_confidence.             *)
(***************************************************************************)
C11_FileRows ==
    {row \in df : row.Type = "File"}

C11_AnyOrderSame ==
    /\ \A row \in C11_FileRows :
           row.Path \in DOMAIN file_classifications =>
               file_classifications[row.Path] =
                   classify_files(<<row>>, folder_classifications, <<>>)[row.Path]
    /\ pc = "done" =>
           \A order \in Orders(C11_FileRows) :
               /\ classify_files(order, folder_classifications, <<>>)
                      = file_classifications
               /\ classify_files(order, folder_classifications,
                                 file_classifications) = file_classifications

C11_ReadsOnly ==
    pc \in {"pass2", "walk", "assign"} =>
        /\ folder_classifications' = folder_classifications
        /\ folder_confidence' = folder_confidence

C11_Pass2Idempotent ==
    []C11_AnyOrderSame /\ [][C11_ReadsOnly]_vars

\* the run has returned with two files of different departments, one of
\* them without any classified ancestor, so that an order-dependent loop
\* would show
C11_Witness ==
    /\ pc = "done"
    /\ \E f1, f2 \in DOMAIN file_classifications :
           /\ file_classifications[f1] # Unclassified
           /\ file_classifications[f2] = Unclassified
           /\ \A folder \in DOMAIN folder_classifications : ~Beneath(f2, folder)
           /\ files_df[1].Path = f1

(***************************************************************************)
(* C12: classify_hierarchy is deterministic: every state of a run, and so  *)
(* the three mappings it returns, is a function of the lexicon, of the     *)
(* rows in the order they are processed and of the position reached, so    *)
(* two runs on the same table return the same mappings; and where several  *)
(* departments tie for a positive maximum, classify_item and step 4 both   *)
(* take the one that comes first in the lexicon.                           *)
(***************************************************************************)
\* the position of a department in the lexicon
C12_Position(dept) ==
    CHOOSE i \in DOMAIN Departments : Departments[i] = dept

\* the departments that hold the largest value of a score vector
C12_Leaders(scores) ==
    {dept \in DOMAIN scores : \A other \in DOMAIN scores : scores[other] <= scores[dept]}

\* the leader that comes first in the lexicon
C12_FirstLeader(scores) ==
    CHOOSE dept \in C12_Leaders(scores) :
        \A other \in C12_Leaders(scores) : C12_Position(dept) <= C12_Position(other)

\* classify_item on the names of the explored tables takes the first leader
C12_ItemsTakeFirst ==
    \A name \in DOMAIN ITEMS :
        ITEMS[name][1] # Unclassified =>
            ITEMS[name][1] = C12_FirstLeader(ITEMS[name][2])

C13_Value(dept) ==
    10 * score_text(arg_name, DEPARTMENT_KEYWORDS[dept])
    + 3 * score_text(arg_parent_path, DEPARTMENT_KEYWORDS[dept])

C13_NothingFires ==
    \A dept \in DeptSet :
        /\ score_text(arg_name, DEPARTMENT_KEYWORDS[dept]) = 0
        /\ score_text(arg_parent_path, DEPARTMENT_KEYWORDS[dept]) = 0

C13_ClassifyItem ==
    pc = "item_returned" =>
        LET department == ret_item[1]
            score_vector == ret_item[2]
            positive == \E dept \in DeptSet : score_vector[dept] > 0
        IN  /\ DOMAIN score_vector = DeptSet
            /\ \A dept \in DeptSet : score_vector[dept] = C13_Value(dept)
            /\ positive =>
                   /\ department \in DeptSet
                   /\ \A dept \in DeptSet : score_vector[dept] <= score_vector[department]
            /\ department = Unclassified <=> ~positive
            /\ ~positive <=> C13_NothingFires
            /\ ~positive => \A dept \in DeptSet : score_vector[dept] = 0

\* classify_item has returned a department for which only the parent path
\* fires, ahead of a department for which the name fires
C13_Witness ==
    /\ pc = "item_returned"
    /\ ret_item[1] \in DeptSet
    /\ score_text(arg_name, DEPARTMENT_KEYWORDS[ret_item[1]]) = 0
    /\ \E dept \in DeptSet :
           /\ score_text(arg_name, DEPARTMENT_KEYWORDS[dept]) > 0
           /\ ret_item[2][dept] < ret_item[2][ret_item[1]]

(***************************************************************************)
(* C14: step 3 adds to a folder's accumulator, for every department d,     *)
(* exactly 3.0 x the confidences of the folders finalized before it that   *)
(* are its direct subfolders and are assigned d: a finalized folder        *)
(* further below adds nothing, even when its own parent is not an entry of *)
(* the table, no other department's entry receives anything, and an        *)
(* Unclassified subfolder adds nothing.                                    *)
(***************************************************************************)
\* the accumulator of the folder processed last as steps 1 and 2 leave it
C14_BeforeStep3 ==
    add_file_scores(folder_files(files_df, LastFolder.Path),
                    add_scores(ITEMS[LastFolder.Name][2], FOLDER_NAME_WEIGHT, <<>>))

\* the folders finalized before the folder processed last
C14_Finalized ==
    DOMAIN folder_classifications \ {LastFolder.Path}

C14_DirectSubfolders(dept) ==
    {sub \in C14_Finalized :
        ChildOf(sub, LastFolder.Path) /\ folder_classifications[sub] = dept}

C14_NoSkipPropagation ==
    Processed =>
        /\ DOMAIN dept_scores = DeptSet
        /\ Unclassified \notin DOMAIN dept_scores
        /\ \A dept \in DeptSet :
               dept_scores[dept] - C14_BeforeStep3[dept] =
                   3 * SumOf([sub \in C14_DirectSubfolders(dept) |->
                                 folder_confidence[sub]])

\* the folder processed last has received the confidence of a classified
\* direct subfolder, and nothing from a classified folder two levels below
\* it whose own parent is not in the table
C14_Witness ==
    /\ Processed
    /\ \E sub \in C14_Finalized :
           /\ ChildOf(sub, LastFolder.Path)
           /\ folder_classifications[sub] # Unclassified
           /\ dept_scores[folder_classifications[sub]] >= 3 * folder_confidence[sub]
    /\ \E low \in C14_Finalized :
           /\ Beneath(low, LastFolder.Path)
           /\ ~ChildOf(low, LastFolder.Path)
           /\ \A entry \in FolderEntries : ~ChildOf(low, entry)
           /\ folder_classifications[low] # Unclassified
           /\ dept_scores[folder_classifications[low]] = 0

(***************************************************************************)
(* C15: folders of equal depth are independent of each other: whichever    *)
(* order of non-increasing depth Pass 1 processes the Folder entries in,   *)
(* every folder ends with the same department and the same confidence as   *)
(* in the run that was taken.                                              *)
(***************************************************************************)
C15_FolderRows ==
    {row \in df : row.Type = "Folder"}

\* the orders of the Folder rows in which no folder comes before a strictly
\* deeper one
C15_DepthOrders ==
    {order \in Orders(C15_FolderRows) :
        \A i, j \in DOMAIN order :
            Depth(order[i].Path) > Depth(order[j].Path) => i < j}

C15_EqualDepthIndependent ==
    pc = "done" =>
        \A order \in C15_DepthOrders :
            classify_folders(order, files_df, <<>>, <<>>)
                = <<folder_classifications, folder_confidence>>

(***************************************************************************)
(* C16: confidence grows upward: once Pass 1 is over, for every Folder     *)
(* entry F and every direct subfolder S of F in the table whose department *)
(* is not Unclassified, confidence(F) >= 3.0 x confidence(S) > 0, so F is  *)
(* not Unclassified; and a folder is Unclassified only if all its direct   *)
(* subfolders in the table are Unclassified, no File entry anywhere        *)
(* beneath it scores for any department, and its own name scores for none. *)
(***************************************************************************)
C16_Scores(name) ==
    \E dept \in DeptSet : NameScore(name, dept) > 0

C16_UpwardMonotone ==
    pc \in {"pass2", "walk", "assign", "done"} =>
        \A row \in {r \in df : r.Type = "Folder"} :
            /\ \A sub \in FolderEntries :
                   ChildOf(sub, row.Path) /\ folder_classifications[sub] # Unclassified =>
                       /\ folder_confidence[sub] > 0
                       /\ folder_confidence[row.Path] >= 3 * folder_confidence[sub]
                       /\ folder_classifications[row.Path] # Unclassified
            /\ folder_classifications[row.Path] = Unclassified =>
                   /\ \A sub \in FolderEntries :
                          ChildOf(sub, row.Path) =>
                              folder_classifications[sub] = Unclassified
                   /\ \A file \in C2_FilesBelow(row.Path) : ~C16_Scores(file.Name)
                   /\ ~C16_Scores(row.Name)
====
